---- MODULE Spec2Model ----
(***************************************************************************)
(* RSI alerting scripts: rsi_utils.py (shared), rsi1d.py (daily script),   *)
(* rsi4h.py (4-hour script), config/shared.py.                             *)
(*                                                                         *)
(* Numbers.  pandas computes on IEEE doubles.  The model keeps the IEEE    *)
(* special values (NaN, +inf/-inf, signed zero), because the code's        *)
(* behaviour on zero divisors is decided by them, and represents every     *)
(* finite value by an exact fraction sgn * n / d in lowest terms (the      *)
(* rounding error of a double is not modelled).                            *)
(*                                                                         *)
(* Text.  The Chinese literals of the source are written by their code     *)
(* points, e.g. "{8D85}{4E70}" for the two characters of the overbought    *)
(* signal, and "{60}" for the backtick; every other character is kept.     *)
(***************************************************************************)
EXTENDS Integers, Sequences, FiniteSets, TLC

VARIABLES
    payload,        \* the rows (time, price) the provider returned for a symbol
    prices,         \* calculate_rsi: the argument `prices` (None or a series)
    period,         \* calculate_rsi: the argument `period` / `length`
    rsi_shared,     \* what rsi_utils.calculate_rsi returned
    rsi_daily,      \* what rsi1d.calculate_rsi returned
    results,        \* analyze_extreme_rsi: the argument `results`
    extreme,        \* what rsi_utils.analyze_extreme_rsi returned
    extreme_daily,  \* what rsi1d.analyze_extreme_rsi returned
    extreme_rsi,    \* format_rsi_message: the argument `extreme_rsi`
    timeframe_tag,  \* format_rsi_message: the argument `timeframe_tag`
    now,            \* datetime.now() at the call
    msg_shared,     \* what rsi_utils.format_rsi_message returned or raised
    msg_daily,      \* what rsi1d.format_rsi_message returned or raised
    msg_4h,         \* what rsi4h.format_rsi_message returned or raised
    script,         \* the script that runs: "rsi1d" or "rsi4h"
    pc,             \* where main() is: fetch, detect, compose, notify, done, fault
    idx,            \* enumerate(..., 1) index of the symbol being processed
    attempt,        \* get_historical_prices: the loop variable `attempt`
    slept,          \* the time.sleep calls made so far, in order
    endpoint,       \* send_notification: position in NOTIFICATION_URLS
    requests,       \* the requests.get calls send_notification made, in order
    success_count,  \* send_notification: the local `success_count`
    sent,           \* what send_notification returned
    raised,         \* the exception that left main(), "" if none
    urls,           \* Config.NOTIFICATION_URLS: the endpoint names, in order
    notice,         \* send_notification: the arguments (title, content)
    answers,        \* what the endpoints answered to `requests`, in order
    io_log,         \* the provider requests and the sleeps of the run, in order
    now_again,      \* datetime.now() at a second call with the same arguments
    msg_shared_again, \* what the second call of rsi_utils.format_rsi_message returned
    msg_daily_again   \* what the second call of rsi1d.format_rsi_message returned

rsi_vars == <<payload, prices, period, rsi_shared, rsi_daily>>
detect_vars == <<results, extreme, extreme_daily>>
format_vars == <<extreme_rsi, timeframe_tag, now, msg_shared, msg_daily, msg_4h>>

main_vars == <<script, pc, idx, attempt, slept, endpoint, requests, success_count, sent, raised,
               urls, notice, answers, io_log>>
again_vars == <<now_again, msg_shared_again, msg_daily_again>>

vars == <<payload, prices, period, rsi_shared, rsi_daily, results, extreme, extreme_daily,
          extreme_rsi, timeframe_tag, now, msg_shared, msg_daily, msg_4h,
          script, pc, idx, attempt, slept, endpoint, requests, success_count, sent, raised,
          urls, notice, answers, io_log,
          now_again, msg_shared_again, msg_daily_again>>

----------------------------------------------------------------------------
(* Bounds of the model. *)

MaxLen == 4
MaxPrice == 4
MaxPeriod == 3
MaxSymbols == 2
MaxEvents == 3
MaxRepeatEvents == 2
NSymbols == 2
MaxEndpoints == 2
MaxPoints == 3
MaxStamp == 3

----------------------------------------------------------------------------
(* IEEE-like numbers over exact fractions. *)

RECURSIVE GCD(_, _)
GCD(a, b) == IF b = 0 THEN a ELSE GCD(b, a % b)

NaN == [tag |-> "nan", sgn |-> 1, n |-> 0, d |-> 1]
Inf(s) == [tag |-> "inf", sgn |-> s, n |-> 1, d |-> 0]

\* sgn * n / d in lowest terms; a zero keeps its sign
Fin(s, n, d) ==
    IF n = 0 THEN [tag |-> "fin", sgn |-> s, n |-> 0, d |-> 1]
    ELSE LET g == GCD(n, d)
         IN [tag |-> "fin", sgn |-> s, n |-> n \div g, d |-> d \div g]

Num(i) == IF i < 0 THEN Fin(-1, -i, 1) ELSE Fin(1, i, 1)
Frac(a, b) == Fin(1, a, b)

IsNaN(a) == a.tag = "nan"
IsZero(a) == a.tag = "fin" /\ a.n = 0

FNeg(a) == IF IsNaN(a) THEN a ELSE [a EXCEPT !.sgn = -a.sgn]

FAdd(a, b) ==
    IF IsNaN(a) \/ IsNaN(b) THEN NaN
    ELSE IF a.tag = "inf" /\ b.tag = "inf" THEN (IF a.sgn = b.sgn THEN a ELSE NaN)
    ELSE IF a.tag = "inf" THEN a
    ELSE IF b.tag = "inf" THEN b
    ELSE LET s == a.sgn * a.n * b.d + b.sgn * b.n * a.d
         IN IF s = 0
            THEN Fin(IF IsZero(a) /\ IsZero(b) /\ a.sgn = -1 /\ b.sgn = -1 THEN -1 ELSE 1, 0, 1)
            ELSE IF s < 0 THEN Fin(-1, -s, a.d * b.d) ELSE Fin(1, s, a.d * b.d)

FSub(a, b) == FAdd(a, FNeg(b))

FMul(a, b) ==
    IF IsNaN(a) \/ IsNaN(b) THEN NaN
    ELSE IF a.tag = "inf" \/ b.tag = "inf"
         THEN (IF IsZero(a) \/ IsZero(b) THEN NaN ELSE Inf(a.sgn * b.sgn))
    ELSE Fin(a.sgn * b.sgn, a.n * b.n, a.d * b.d)

\* (mutation of the division: the undefined 0/0 gives 0 instead of NaN)
FDiv_undefined_as_zero(a, b) ==
    IF IsNaN(a) \/ IsNaN(b) THEN NaN
    ELSE IF a.tag = "inf" THEN (IF b.tag = "inf" THEN NaN ELSE Inf(a.sgn * b.sgn))
    ELSE IF b.tag = "inf" THEN Fin(a.sgn * b.sgn, 0, 1)
    ELSE IF IsZero(b) THEN (IF IsZero(a) THEN Fin(1, 0, 1) ELSE Inf(a.sgn * b.sgn))
    ELSE Fin(a.sgn * b.sgn, a.n * b.d, a.d * b.n)

\* numpy division: a zero divisor gives inf or NaN, never an exception
FDiv(a, b) ==
    IF IsNaN(a) \/ IsNaN(b) THEN NaN
    ELSE IF a.tag = "inf" THEN (IF b.tag = "inf" THEN NaN ELSE Inf(a.sgn * b.sgn))
    ELSE IF b.tag = "inf" THEN Fin(a.sgn * b.sgn, 0, 1)
    ELSE IF IsZero(b) THEN (IF IsZero(a) THEN NaN ELSE Inf(a.sgn * b.sgn))
    ELSE Fin(a.sgn * b.sgn, a.n * b.d, a.d * b.n)

\* the comparisons of IEEE numbers: false on NaN, -0.0 equal to 0.0
FLt(a, b) ==
    /\ ~IsNaN(a) /\ ~IsNaN(b)
    /\ IF a.tag = "inf" THEN a.sgn = -1 /\ ~(b.tag = "inf" /\ b.sgn = -1)
       ELSE IF b.tag = "inf" THEN b.sgn = 1
       ELSE a.sgn * a.n * b.d < b.sgn * b.n * a.d
FEq(a, b) == ~IsNaN(a) /\ ~IsNaN(b) /\ ~FLt(a, b) /\ ~FLt(b, a)
FGt(a, b) == FLt(b, a)
FGe(a, b) == FLt(b, a) \/ FEq(a, b)
FLe(a, b) == FLt(a, b) \/ FEq(a, b)

----------------------------------------------------------------------------
(* Optional values: None, a pandas Series, a float. *)

None == [kind |-> "None", val |-> <<>>]
Series(s) == [kind |-> "Series", val |-> s]
Float(f) == [kind |-> "float", val |-> <<f>>]
Pending == [kind |-> "pending", val |-> <<>>]

\* (mutation of the length guard: `len(prices) < period`)
InsufficientData_off_by_one(p, per) == p = None \/ Len(p.val) < per

\* len(prices) < period + 1, short-circuited behind `prices is None`
InsufficientData(p, per) == p = None \/ Len(p.val) < per + 1

----------------------------------------------------------------------------
(* pandas operations used by calculate_rsi. *)

\* Series.diff(): NaN first, then the consecutive differences
diff(s) == [i \in 1..Len(s) |-> IF i = 1 THEN NaN ELSE FSub(s[i], s[i - 1])]

\* Series.clip(lower=0) and Series.clip(upper=0): NaN stays NaN
clip_lower0(s) == [i \in 1..Len(s) |->
    IF IsNaN(s[i]) THEN NaN ELSE IF FLt(s[i], Num(0)) THEN Num(0) ELSE s[i]]
clip_upper0(s) == [i \in 1..Len(s) |->
    IF IsNaN(s[i]) THEN NaN ELSE IF FGt(s[i], Num(0)) THEN Num(0) ELSE s[i]]

\* Series.where(cond, 0): the value where cond holds, 0 elsewhere (cond is
\* False on NaN, so NaN becomes 0)
where_gt0(s) == [i \in 1..Len(s) |-> IF FGt(s[i], Num(0)) THEN s[i] ELSE Num(0)]
where_lt0(s) == [i \in 1..Len(s) |-> IF FLt(s[i], Num(0)) THEN s[i] ELSE Num(0)]

\* (mutation of the unary minus of `loss`: the sign is kept)
neg_dropped(s) == s

neg(s) == [i \in 1..Len(s) |-> FNeg(s[i])]

\* Series.ewm(alpha=alpha, adjust=False).mean(), ignore_na=False, min_periods=0:
\* the running value starts at the first observation (a leading NaN gives NaN
\* and is skipped), then weighted = (1 - alpha) * weighted + alpha * cur.
\* An interior NaN repeats the running value (no series here has one).
RECURSIVE ewm_from(_, _, _, _)
ewm_from(vals, alpha, i, weighted) ==
    IF i > Len(vals) THEN <<>>
    ELSE LET cur == vals[i]
             w == IF ~IsNaN(weighted)
                  THEN IF ~IsNaN(cur) /\ ~FEq(weighted, cur)
                       THEN FAdd(FMul(FSub(Num(1), alpha), weighted), FMul(alpha, cur))
                       ELSE weighted
                  ELSE cur
         IN <<w>> \o ewm_from(vals, alpha, i + 1, w)

ewm_mean(vals, alpha) ==
    IF vals = <<>> THEN <<>> ELSE <<vals[1]>> \o ewm_from(vals, alpha, 2, vals[1])

\* (mutation of the division: a zero divisor yields no value instead of inf)
rsi_of_guarded(avg_gain, avg_loss) == [i \in 1..Len(avg_gain) |->
    IF IsZero(avg_loss[i]) THEN NaN
    ELSE FSub(Num(100), FDiv(Num(100), FAdd(Num(1), FDiv(avg_gain[i], avg_loss[i]))))]

\* rs = avg_gain / avg_loss ; rsi = 100 - (100 / (1 + rs)), elementwise
rsi_of(avg_gain, avg_loss) == [i \in 1..Len(avg_gain) |->
    LET rs == FDiv(avg_gain[i], avg_loss[i])
    IN FSub(Num(100), FDiv(Num(100), FAdd(Num(1), rs)))]

ToFloats(s) == [i \in 1..Len(s) |-> Num(s[i])]

----------------------------------------------------------------------------
(* rsi_utils.calculate_rsi *)

avg_gain_shared(p, per) == ewm_mean(clip_lower0(diff(ToFloats(p))), Frac(1, per))
avg_loss_shared(p, per) == ewm_mean(neg(clip_upper0(diff(ToFloats(p)))), Frac(1, per))

calculate_rsi(p, per) ==
    IF InsufficientData(p, per) THEN None
    ELSE Series(rsi_of(avg_gain_shared(p.val, per), avg_loss_shared(p.val, per)))

(* rsi1d.calculate_rsi *)

avg_gain_daily(p, per) == ewm_mean(where_gt0(diff(ToFloats(p))), Frac(1, per))
avg_loss_daily(p, per) == ewm_mean(neg(where_lt0(diff(ToFloats(p)))), Frac(1, per))

rsi1d_calculate_rsi(p, per) ==
    IF InsufficientData(p, per) THEN None
    ELSE LET rsi_series == rsi_of(avg_gain_daily(p.val, per), avg_loss_daily(p.val, per))
             latest_rsi == rsi_series[Len(rsi_series)]
         IN IF Len(rsi_series) > 0
            THEN (IF ~IsNaN(latest_rsi) THEN Float(latest_rsi) ELSE None)
            ELSE None

----------------------------------------------------------------------------
(* Text: str.format of numbers. *)

\* round(a / b) to the nearest integer, ties to even, for a >= 0, b > 0
RoundHalfEven(a, b) ==
    LET q == a \div b
        r == a % b
    IN IF 2 * r > b \/ (2 * r = b /\ q % 2 = 1) THEN q + 1 ELSE q

Pad2(k) == IF k < 10 THEN "0" \o ToString(k) ELSE ToString(k)
Pad3(k) == IF k < 10 THEN "00" \o ToString(k)
           ELSE IF k < 100 THEN "0" \o ToString(k) ELSE ToString(k)

\* the ',' option: the integer part in groups of three digits
RECURSIVE Commas(_)
Commas(k) == IF k < 1000 THEN ToString(k) ELSE Commas(k \div 1000) \o "," \o Pad3(k % 1000)

Plain(k) == ToString(k)

\* f"{x:.2f}" (grouped = FALSE) and f"{x:,.2f}" (grouped = TRUE)
FormatFixed2(f, grouped) ==
    IF IsNaN(f) THEN "nan"
    ELSE IF f.tag = "inf" THEN (IF f.sgn = -1 THEN "-inf" ELSE "inf")
    ELSE LET q == RoundHalfEven(f.n * 100, f.d)
         IN (IF f.sgn = -1 THEN "-" ELSE "")
            \o (IF grouped THEN Commas(q \div 100) ELSE Plain(q \div 100))
            \o "." \o Pad2(q % 100)

Fmt2(f) == FormatFixed2(f, FALSE)

----------------------------------------------------------------------------
(* config/shared.py *)

RSI_OVERBOUGHT_14 == 65
RSI_OVERSOLD_14 == 35
RSI_OVERBOUGHT_6 == 70
RSI_OVERSOLD_6 == 30

\* the signal literals: U+8D85 U+4E70 (overbought), U+8D85 U+5356 (oversold)
OVERBOUGHT == "{8D85}{4E70}"
OVERSOLD == "{8D85}{5356}"

----------------------------------------------------------------------------
(* The values of a results entry: None, an error string, a float. *)

Str == [kind |-> "str", val |-> <<>>]

\* isinstance(x, numbers.Real) and isinstance(x, float), on the values above
IsReal(x) == x.kind = "float"

SymbolData(symbol, rsi_14, rsi_6, error, price) ==
    [symbol |-> symbol, rsi_14 |-> rsi_14, rsi_6 |-> rsi_6, error |-> error, price |-> price]

Event(symbol, indicator, signal, rsi_value, price) ==
    [symbol |-> symbol, indicator |-> indicator, signal |-> signal,
     rsi_value |-> rsi_value, price |-> price]

List(s) == [kind |-> "list", val |-> s]
Dict(s) == [kind |-> "dict", val |-> s]

----------------------------------------------------------------------------
(* rsi_utils.analyze_extreme_rsi *)

\* if v >= overbought: ... elif v <= oversold: ... ; <<>> when neither
classify(v, overbought, oversold) ==
    IF FGe(v, Num(overbought)) THEN <<OVERBOUGHT>>
    ELSE IF FLe(v, Num(oversold)) THEN <<OVERSOLD>>
    ELSE <<>>

\* the events one period of one symbol appends (none or one)
events_of_period(data, r, indicator, overbought, oversold) ==
    IF IsReal(r) /\ classify(r.val[1], overbought, oversold) # <<>>
    THEN <<Event(data.symbol, indicator, classify(r.val[1], overbought, oversold)[1],
                 Float(r.val[1]), data.price)>>
    ELSE <<>>

\* (mutation of the `if data.get("error"): continue`: the flag is ignored)
is_failed_ignored(data) == FALSE

is_failed(data) == data.error

\* (mutation of the loop body: RSI-6 is looked at before RSI-14)
events_of_symbol_swapped(data) ==
    IF is_failed(data) THEN <<>>
    ELSE events_of_period(data, data.rsi_6, "RSI-6", RSI_OVERBOUGHT_6, RSI_OVERSOLD_6)
         \o events_of_period(data, data.rsi_14, "RSI-14", RSI_OVERBOUGHT_14, RSI_OVERSOLD_14)

\* one iteration of `for symbol, data in results.items()`
events_of_symbol(data) ==
    IF is_failed(data) THEN <<>>
    ELSE events_of_period(data, data.rsi_14, "RSI-14", RSI_OVERBOUGHT_14, RSI_OVERSOLD_14)
         \o events_of_period(data, data.rsi_6, "RSI-6", RSI_OVERBOUGHT_6, RSI_OVERSOLD_6)

RECURSIVE analyze_from(_, _)
analyze_from(res, i) ==
    IF i > Len(res) THEN <<>> ELSE events_of_symbol(res[i]) \o analyze_from(res, i + 1)

analyze_extreme_rsi(res) == List(analyze_from(res, 1))

----------------------------------------------------------------------------
(* rsi1d.analyze_extreme_rsi: a dict  "<symbol> (RSI-14)" -> "<signal>: <rsi:.2f>". *)
(* A string that the formatters later search and split is kept as the       *)
(* sequence of the pieces the f-string joined.                               *)

Item(key, status) == [key |-> key, status |-> status]

rsi1d_items_of_period(data, r, indicator, overbought, oversold) ==
    IF IsReal(r) /\ classify(r.val[1], overbought, oversold) # <<>>
    THEN <<Item(<<data.symbol, " (", indicator, ")">>,
                <<classify(r.val[1], overbought, oversold)[1], ": ", Fmt2(r.val[1])>>)>>
    ELSE <<>>

rsi1d_items_of_symbol(data) ==
    IF is_failed(data) THEN <<>>
    ELSE rsi1d_items_of_period(data, data.rsi_14, "RSI-14", RSI_OVERBOUGHT_14, RSI_OVERSOLD_14)
         \o rsi1d_items_of_period(data, data.rsi_6, "RSI-6", RSI_OVERBOUGHT_6, RSI_OVERSOLD_6)

RECURSIVE rsi1d_analyze_from(_, _)
rsi1d_analyze_from(res, i) ==
    IF i > Len(res) THEN <<>>
    ELSE rsi1d_items_of_symbol(res[i]) \o rsi1d_analyze_from(res, i + 1)

rsi1d_analyze_extreme_rsi(res) == Dict(rsi1d_analyze_from(res, 1))

----------------------------------------------------------------------------
(* Messages: what a format_rsi_message call returns or raises.  `content` is *)
(* "\n".join(lines); the lines are kept beside it.                           *)

Return(title, lines, content) ==
    [kind |-> "return", exc |-> "", title |-> title, lines |-> lines, content |-> content]
Raise(exc) ==
    [kind |-> "raise", exc |-> exc, title |-> "", lines |-> <<>>, content |-> ""]
NotCalled ==
    [kind |-> "pending", exc |-> "", title |-> "", lines |-> <<>>, content |-> ""]

\* "\n".join(lines)
RECURSIVE join_from(_, _)
join_from(lines, i) ==
    IF i > Len(lines) THEN ""
    ELSE IF i = Len(lines) THEN lines[i]
    ELSE lines[i] \o "\n" \o join_from(lines, i + 1)
join(lines) == join_from(lines, 1)

\* "".join(pieces): the string a sequence of pieces stands for
RECURSIVE Concat(_)
Concat(pieces) == IF pieces = <<>> THEN "" ELSE pieces[1] \o Concat(Tail(pieces))

\* datetime.now(), to the second
Clock(sec) == [year |-> 2025, month |-> 9, day |-> 12, hour |-> 14, minute |-> 30, second |-> sec]

\* strftime('%Y-%m-%d %H:%M:%S')
strftime(t) ==
    ToString(t.year) \o "-" \o Pad2(t.month) \o "-" \o Pad2(t.day) \o " "
    \o Pad2(t.hour) \o ":" \o Pad2(t.minute) \o ":" \o Pad2(t.second)

----------------------------------------------------------------------------
(* rsi_utils.format_rsi_message and _format_price *)

\* isinstance(value, numbers.Real) -> f"${float(value):,.2f}", else "--"
format_price(value) ==
    IF IsReal(value) THEN "$" \o FormatFixed2(value.val[1], TRUE) ELSE "--"

\* one table row of rsi_utils.format_rsi_message
table_row(item) ==
    "| **" \o item.symbol \o "** | {60}" \o item.indicator \o "{60} | **"
    \o (IF IsReal(item.rsi_value) THEN Fmt2(item.rsi_value.val[1]) ELSE "--")
    \o "** | " \o format_price(item.price) \o " |"

table_rows(items) == [k \in 1..Len(items) |-> table_row(items[k])]

HEADING == "## {1F4C8} RSI{6280}{672F}{6307}{6807}{5206}{6790}"
TIME_LABEL == "{1F570}{FE0F} **{68C0}{6D4B}{65F6}{95F4}**: "
OVERBOUGHT_HEADER == "### {1F534} **{8D85}{4E70}{533A}{57DF}** {60}{5356}{51FA}{4FE1}{53F7}{60}"
OVERSOLD_HEADER == "### {1F7E2} **{8D85}{5356}{533A}{57DF}** {60}{4E70}{5165}{4FE1}{53F7}{60}"
PRICE_TABLE_HEAD == "| {52A0}{5BC6}{8D27}{5E01} | RSI{6307}{6807} | RSI{503C} | {6700}{65B0}{4EF7}{683C} |"
PRICE_TABLE_RULE == "|---------|--------|-------|-----------|"
SELL_ADVICE == "> {1F4C9} **{5EFA}{8BAE}**: {8003}{8651}{5356}{51FA}{FF0C}{83B7}{5229}{4E86}{7ED3}"
BUY_ADVICE == "> {1F4C8} **{5EFA}{8BAE}**: {8003}{8651}{4E70}{5165}{FF0C}{53EF}{80FD}{5C06}{53CD}{5F39}"
FOOTER ==
    << "---",
       "",
       "### {1F4CA} RSI{6307}{6807}{8BF4}{660E}",
       "",
       "- **RSI-14**: 14{65E5}{76F8}{5BF9}{5F3A}{5F31}{6307}{6570} ({8D85}{4E70}: {2265} 65, {8D85}{5356}: {2264} 35)",
       "- **RSI-6**: 6{65E5}{76F8}{5BF9}{5F3A}{5F31}{6307}{6570} ({8D85}{4E70}: {2265} 70, {8D85}{5356}: {2264} 30)",
       "",
       "> {26A0}{FE0F} **{514D}{8D23}{58F0}{660E}**: {4EC5}{4F9B}{53C2}{8003}{FF0C}{4E0D}{6784}{6210}{6295}{8D44}{5EFA}{8BAE}{FF0C}{8BF7}{7406}{6027}{6295}{8D44}{3002}" >>

\* f"RSI-{len(overbought_items)}...,{len(oversold_items)}..."
base_title(n_overbought, n_oversold) ==
    "RSI-" \o ToString(n_overbought) \o "{4E2A}{8D85}{4E70}," \o ToString(n_oversold)
    \o "{4E2A}{8D85}{5356}{4FE1}{53F7}"

IsOverboughtEntry(entry) == entry.signal = OVERBOUGHT
IsOversoldEntry(entry) == entry.signal = OVERSOLD

\* (mutation of the partition loop: every entry is counted as overbought)
overbought_of_all(entries) == entries

overbought_of(entries) == SelectSeq(entries, IsOverboughtEntry)
oversold_of(entries) == SelectSeq(entries, IsOversoldEntry)

\* (mutation of the body: the clock is also read for the last line)
shared_content_lines_stamped_twice(overbought_items, oversold_items, t) ==
    <<HEADING, "", TIME_LABEL \o strftime(t), "", "---", "">>
    \o table_rows(overbought_items) \o table_rows(oversold_items)
    \o FOOTER \o <<strftime(t)>>

\* the lines of the body, for the two sublists and the clock
shared_content_lines(overbought_items, oversold_items, t) ==
    <<HEADING, "", TIME_LABEL \o strftime(t), "", "---", "">>
    \o (IF overbought_items # <<>>
        THEN <<OVERBOUGHT_HEADER, "", PRICE_TABLE_HEAD, PRICE_TABLE_RULE>>
             \o table_rows(overbought_items) \o <<"", SELL_ADVICE, "">>
        ELSE <<>>)
    \o (IF oversold_items # <<>>
        THEN <<OVERSOLD_HEADER, "", PRICE_TABLE_HEAD, PRICE_TABLE_RULE>>
             \o table_rows(oversold_items) \o <<"", BUY_ADVICE, "">>
        ELSE <<>>)
    \o FOOTER

\* `if timeframe_tag`: None and "" are falsy
Truthy(tag) == tag # <<>> /\ tag # <<"">>

format_rsi_message(ex, tag, t) ==
    IF ex.val = <<>> THEN Return("", <<>>, "")
    ELSE IF ex.kind # "list" THEN Raise("AttributeError")
    ELSE LET overbought_items == overbought_of(ex.val)
             oversold_items == oversold_of(ex.val)
             title == (IF Truthy(tag) THEN tag[1] \o " | " ELSE "")
                      \o base_title(Len(overbought_items), Len(oversold_items))
             lines == shared_content_lines(overbought_items, oversold_items, t)
         IN Return(title, lines, join(lines))

----------------------------------------------------------------------------
(* rsi1d.format_rsi_message: written for the dict of rsi1d.analyze_extreme_rsi *)

\* `"<signal>" in status`, on the pieces of the status
Contains(pieces, literal) == \E k \in 1..Len(pieces) : pieces[k] = literal

\* str.split(sep), on the pieces: the pieces before the first sep, the rest
IndexOf(pieces, sep) ==
    IF Contains(pieces, sep) THEN CHOOSE k \in 1..Len(pieces) :
            pieces[k] = sep /\ \A j \in 1..(k - 1) : pieces[j] # sep
    ELSE 0
SplitHead(pieces, sep) ==
    IF IndexOf(pieces, sep) = 0 THEN pieces ELSE SubSeq(pieces, 1, IndexOf(pieces, sep) - 1)
SplitRest(pieces, sep) ==
    IF IndexOf(pieces, sep) = 0 THEN <<>> ELSE SubSeq(pieces, IndexOf(pieces, sep) + 1, Len(pieces))

\* str.rstrip(')')
rstrip_paren(pieces) ==
    IF pieces # <<>> /\ pieces[Len(pieces)] = ")" THEN SubSeq(pieces, 1, Len(pieces) - 1)
    ELSE pieces

IsOverboughtItem(item) == Contains(item.status, OVERBOUGHT)
IsOversoldItem(item) == ~Contains(item.status, OVERBOUGHT) /\ Contains(item.status, OVERSOLD)

\* f"| **{crypto_name}** | `{rsi_type}` | **{rsi_value}** |"
rsi1d_table_row(item) ==
    "| **" \o Concat(SplitHead(item.key, " (")) \o "** | {60}"
    \o Concat(rstrip_paren(SplitRest(item.key, " ("))) \o "{60} | **"
    \o Concat(SplitRest(item.status, ": ")) \o "** |"

rsi1d_table_rows(items) == [k \in 1..Len(items) |-> rsi1d_table_row(items[k])]

TABLE_HEAD == "| {52A0}{5BC6}{8D27}{5E01} | RSI{6307}{6807} | RSI{503C} |"
TABLE_RULE == "|---------|--------|-------|"

rsi1d_content_lines(overbought_items, oversold_items, t) ==
    <<HEADING, "", TIME_LABEL \o strftime(t), "", "---", "">>
    \o (IF overbought_items # <<>>
        THEN <<OVERBOUGHT_HEADER, "", TABLE_HEAD, TABLE_RULE>>
             \o rsi1d_table_rows(overbought_items) \o <<"", SELL_ADVICE, "">>
        ELSE <<>>)
    \o (IF oversold_items # <<>>
        THEN <<OVERSOLD_HEADER, "", TABLE_HEAD, TABLE_RULE>>
             \o rsi1d_table_rows(oversold_items) \o <<"", BUY_ADVICE, "">>
        ELSE <<>>)
    \o FOOTER

\* `extreme_rsi.items()` exists on a dict only
rsi1d_format_rsi_message(ex, t) ==
    IF ex.val = <<>> THEN Return("", <<>>, "")
    ELSE IF ex.kind # "dict" THEN Raise("AttributeError")
    ELSE LET overbought_items == SelectSeq(ex.val, IsOverboughtItem)
             oversold_items == SelectSeq(ex.val, IsOversoldItem)
             lines == rsi1d_content_lines(overbought_items, oversold_items, t)
         IN Return(base_title(Len(overbought_items), Len(oversold_items)), lines, join(lines))

----------------------------------------------------------------------------
(* rsi4h.format_rsi_message: written for a dict as well *)

HEADING_4H == "## RSI 4h {6781}{503C}{63D0}{9192}"
OVERBOUGHT_HEADER_4H == "### {1F534} {8D85}{4E70} ({5356}{51FA}{4FE1}{53F7})"
OVERSOLD_HEADER_4H == "### {1F7E2} {8D85}{5356} ({4E70}{5165}{4FE1}{53F7})"
TIME_LABEL_4H == "{68C0}{6D4B}{65F6}{95F4}: "

IsOverboughtValue(item) == Contains(item.status, OVERBOUGHT)
IsOversoldValue(item) == Contains(item.status, OVERSOLD)

\* f"- {k}: {v}"
rsi4h_bullets(items) ==
    [k \in 1..Len(items) |-> "- " \o Concat(items[k].key) \o ": " \o Concat(items[k].status)]

rsi4h_format_rsi_message(ex, t) ==
    IF ex.val = <<>> THEN Return("", <<>>, "")
    ELSE IF ex.kind # "dict" THEN Raise("AttributeError")
    ELSE LET overbought == SelectSeq(ex.val, IsOverboughtValue)
             oversold == SelectSeq(ex.val, IsOversoldValue)
             lines == <<HEADING_4H, "">>
                      \o (IF overbought # <<>>
                          THEN <<OVERBOUGHT_HEADER_4H>> \o rsi4h_bullets(overbought) \o <<"">>
                          ELSE <<>>)
                      \o (IF oversold # <<>>
                          THEN <<OVERSOLD_HEADER_4H>> \o rsi4h_bullets(oversold) \o <<"">>
                          ELSE <<>>)
                      \o <<TIME_LABEL_4H \o strftime(t)>>
         IN Return(base_title(Len(overbought), Len(oversold)), lines, join(lines))

----------------------------------------------------------------------------
(* Specification of the RSI engine: any series, any period, both variants. *)

RsiIdle ==
    /\ payload = <<>>
    /\ prices = None
    /\ period = 1
    /\ rsi_shared = Pending
    /\ rsi_daily = Pending

DetectIdle ==
    /\ results = <<>>
    /\ extreme = Pending
    /\ extreme_daily = Pending

FormatIdle ==
    /\ extreme_rsi = List(<<>>)
    /\ timeframe_tag = <<>>
    /\ now = Clock(0)
    /\ msg_shared = NotCalled
    /\ msg_daily = NotCalled
    /\ msg_4h = NotCalled

\* the arguments of send_notification, before it is called
NoNotice == [title |-> "", content |-> ""]

MainIdle ==
    /\ script = "none"
    /\ pc = "idle"
    /\ idx = 0
    /\ attempt = 0
    /\ slept = <<>>
    /\ endpoint = 0
    /\ requests = <<>>
    /\ success_count = 0
    /\ sent = Pending
    /\ raised = ""
    /\ urls = <<>>
    /\ notice = NoNotice
    /\ answers = <<>>
    /\ io_log = <<>>

AgainIdle ==
    /\ now_again = Clock(0)
    /\ msg_shared_again = NotCalled
    /\ msg_daily_again = NotCalled

RECURSIVE SeqsUpTo(_, _)
SeqsUpTo(S, k) ==
    IF k = 0 THEN {<<>>}
    ELSE LET shorter == SeqsUpTo(S, k - 1)
         IN shorter \cup {Append(s, x) : s \in {t \in shorter : Len(t) = k - 1}, x \in S}

PriceInputs == {None} \cup {Series(s) : s \in SeqsUpTo(1..MaxPrice, MaxLen)}

InitRsi ==
    /\ payload = <<>>
    /\ prices \in PriceInputs
    /\ period \in 1..MaxPeriod
    /\ rsi_shared = Pending
    /\ rsi_daily = Pending
    /\ DetectIdle
    /\ FormatIdle
    /\ MainIdle
    /\ AgainIdle

CallCalculateRsi ==
    /\ rsi_shared = Pending
    /\ rsi_shared' = calculate_rsi(prices, period)
    /\ UNCHANGED <<payload, prices, period, rsi_daily, detect_vars, format_vars, main_vars,
                   again_vars>>

CallRsi1dCalculateRsi ==
    /\ rsi_daily = Pending
    /\ rsi_daily' = rsi1d_calculate_rsi(prices, period)
    /\ UNCHANGED <<payload, prices, period, rsi_shared, detect_vars, format_vars, main_vars,
                   again_vars>>

NextRsi == CallCalculateRsi \/ CallRsi1dCalculateRsi

SpecRsi == InitRsi /\ [][NextRsi]_vars

----------------------------------------------------------------------------
(* Specification of the ingestion of one symbol: the rows of the provider's *)
(* payload, with any timestamps, become the price series, and the RSI of    *)
(* the script is computed from it.                                          *)

Row(time, price) == [time |-> time, price |-> price]
PayloadInputs == SeqsUpTo({Row(t, v) : t \in 1..MaxStamp, v \in {1, 2}}, MaxPoints)

\* df['price'] after set_index('date'): the prices of the rows, row by row
price_series(rows) == Series([k \in 1..Len(rows) |-> rows[k].price])

\* get_historical_prices, from the parsed payload on
parse_prices(rows) == IF rows = <<>> THEN None ELSE price_series(rows)

InitIngest ==
    /\ payload \in PayloadInputs
    /\ prices = Pending
    /\ period \in {1, 2}
    /\ rsi_shared = Pending
    /\ rsi_daily = Pending
    /\ DetectIdle
    /\ FormatIdle
    /\ AgainIdle
    /\ script \in {"rsi1d", "rsi4h"}
    /\ pc = "fetch"
    /\ idx = 1
    /\ attempt = 0
    /\ slept = <<>>
    /\ endpoint = 0
    /\ requests = <<>>
    /\ success_count = 0
    /\ sent = Pending
    /\ raised = ""
    /\ urls = <<>>
    /\ notice = NoNotice
    /\ answers = <<>>
    /\ io_log = <<>>

\* the payload becomes the series: get_historical_prices (rsi1d), fetch_ohlcv
\* (rsi4h, where df["time"] of an empty frame raises KeyError)
Ingest ==
    /\ pc = "fetch"
    /\ IF script = "rsi4h" /\ payload = <<>>
       THEN pc' = "fault" /\ raised' = "KeyError" /\ UNCHANGED prices
       ELSE /\ prices' = IF script = "rsi1d" THEN parse_prices(payload) ELSE price_series(payload)
            /\ pc' = "compute"
            /\ UNCHANGED raised
    /\ UNCHANGED <<payload, period, rsi_shared, rsi_daily, detect_vars, format_vars, again_vars,
                   script, idx, attempt, slept, endpoint, requests, success_count, sent,
                   urls, notice, answers, io_log>>

\* rsi4h.py:145 and rsi1d.py:190: the RSI of the ingested series
CalculateRsiOfCloses == pc = "compute" /\ script = "rsi4h" /\ CallCalculateRsi
CalculateRsiOfPrices == pc = "compute" /\ script = "rsi1d" /\ CallRsi1dCalculateRsi

NextIngest == Ingest \/ CalculateRsiOfCloses \/ CalculateRsiOfPrices

SpecIngest == InitIngest /\ [][NextIngest]_vars

----------------------------------------------------------------------------
(* Specification of the extreme detector: any results mapping, both variants. *)

SymbolPool == <<"ETH", "BTC", "SOL", "APT">>

\* the reference price of a symbol, when its entry has a "price" key
PriceOf(symbol) ==
    IF symbol = "ETH" THEN Float(Frac(312311, 100))
    ELSE IF symbol = "SOL" THEN Float(Frac(15492, 100))
    ELSE None

Rsi14Values == {None, Str, Float(NaN), Float(Num(35)), Float(Num(50)), Float(Num(65))}
Rsi6Values == {None, Float(NaN), Float(Num(30)), Float(Num(50)), Float(Num(70))}

DataOf(symbol) ==
    {SymbolData(symbol, r14, r6, FALSE, PriceOf(symbol)) : r14 \in Rsi14Values, r6 \in Rsi6Values}
    \cup {SymbolData(symbol, None, None, TRUE, PriceOf(symbol)),
          SymbolData(symbol, Str, Str, TRUE, PriceOf(symbol)),
          SymbolData(symbol, Float(Num(65)), Float(Num(30)), TRUE, PriceOf(symbol))}

\* a mapping with k distinct symbols, in insertion order
RECURSIVE ResultsOfLen(_)
ResultsOfLen(k) ==
    IF k = 0 THEN {<<>>}
    ELSE {Append(r, d) : r \in ResultsOfLen(k - 1), d \in DataOf(SymbolPool[k])}

ResultsInputs == UNION {ResultsOfLen(k) : k \in 0..MaxSymbols}

InitDetect ==
    /\ RsiIdle
    /\ FormatIdle
    /\ MainIdle
    /\ AgainIdle
    /\ results \in ResultsInputs
    /\ extreme = Pending
    /\ extreme_daily = Pending

CallAnalyzeExtremeRsi ==
    /\ extreme = Pending
    /\ extreme' = analyze_extreme_rsi(results)
    /\ UNCHANGED <<rsi_vars, results, extreme_daily, format_vars, main_vars,
                   again_vars>>

CallRsi1dAnalyzeExtremeRsi ==
    /\ extreme_daily = Pending
    /\ extreme_daily' = rsi1d_analyze_extreme_rsi(results)
    /\ UNCHANGED <<rsi_vars, results, extreme, format_vars, main_vars,
                   again_vars>>

NextDetect == CallAnalyzeExtremeRsi \/ CallRsi1dAnalyzeExtremeRsi

SpecDetect == InitDetect /\ [][NextDetect]_vars

----------------------------------------------------------------------------
(* Specification of the message composer: any list of events (or the dict  *)
(* of the daily detector for them), any label, the three variants.          *)

EventPool ==
    << Event("BTC", "RSI-14", OVERBOUGHT, Float(Frac(145, 2)), Float(Frac(6312345, 100))),
       Event("ETH", "RSI-6", OVERSOLD, Float(Frac(283, 10)), Float(Frac(312311, 100))),
       Event("SOL", "RSI-14", OVERBOUGHT, Float(Frac(682, 10)), None),
       Event("APT", "RSI-6", OVERSOLD, Float(Frac(100, 3)), Float(Frac(982, 100))),
       Event("BTC", "RSI-6", OVERBOUGHT, Float(Num(100)), Float(Frac(6312345, 100))) >>

\* the item rsi1d.analyze_extreme_rsi makes of the same reading
ItemOf(e) == Item(<<e.symbol, " (", e.indicator, ")">>, <<e.signal, ": ", Fmt2(e.rsi_value.val[1])>>)
ItemsOf(l) == [k \in 1..Len(l) |-> ItemOf(l[k])]
\* a symbol has one reading per period: no two events with one symbol and label
DistinctKeys(l) == \A i, j \in 1..Len(l) : i # j => ItemOf(l[i]).key # ItemOf(l[j]).key

EventLists ==
    {l \in SeqsUpTo({EventPool[k] : k \in 1..Len(EventPool)}, MaxEvents) : DistinctKeys(l)}

ExtremeInputs == {List(l) : l \in EventLists} \cup {Dict(ItemsOf(l)) : l \in EventLists}

TagInputs == {<<>>, <<"">>, <<"rsi4h">>}

InitFormat ==
    /\ RsiIdle
    /\ DetectIdle
    /\ MainIdle
    /\ AgainIdle
    /\ extreme_rsi \in ExtremeInputs
    /\ timeframe_tag \in TagInputs
    /\ now \in {Clock(0), Clock(1)}
    /\ msg_shared = NotCalled
    /\ msg_daily = NotCalled
    /\ msg_4h = NotCalled

CallFormatRsiMessage ==
    /\ msg_shared = NotCalled
    /\ msg_shared' = format_rsi_message(extreme_rsi, timeframe_tag, now)
    /\ UNCHANGED <<rsi_vars, detect_vars, extreme_rsi, timeframe_tag, now, msg_daily, msg_4h, main_vars,
                   again_vars>>

CallRsi1dFormatRsiMessage ==
    /\ msg_daily = NotCalled
    /\ msg_daily' = rsi1d_format_rsi_message(extreme_rsi, now)
    /\ UNCHANGED <<rsi_vars, detect_vars, extreme_rsi, timeframe_tag, now, msg_shared, msg_4h, main_vars,
                   again_vars>>

CallRsi4hFormatRsiMessage ==
    /\ msg_4h = NotCalled
    /\ msg_4h' = rsi4h_format_rsi_message(extreme_rsi, now)
    /\ UNCHANGED <<rsi_vars, detect_vars, extreme_rsi, timeframe_tag, now, msg_shared, msg_daily, main_vars,
                   again_vars>>

NextFormat == CallFormatRsiMessage \/ CallRsi1dFormatRsiMessage \/ CallRsi4hFormatRsiMessage

SpecFormat == InitFormat /\ [][NextFormat]_vars

----------------------------------------------------------------------------
(* Specification of repeated calls of the message composer: the same list   *)
(* (or dict) and the same label are formatted a second time, at the same or *)
(* at a later clock reading.                                                *)

RepeatInputs ==
    {List(l) : l \in {x \in EventLists : Len(x) <= MaxRepeatEvents}}
    \cup {Dict(ItemsOf(l)) : l \in {x \in EventLists : Len(x) <= MaxRepeatEvents}}

\* the readings of the clock at or after t
LaterClocks(t) == {Clock(sec) : sec \in t.second..1}

InitRepeat ==
    /\ RsiIdle
    /\ DetectIdle
    /\ MainIdle
    /\ AgainIdle
    /\ extreme_rsi \in RepeatInputs
    /\ timeframe_tag \in TagInputs
    /\ now \in {Clock(0), Clock(1)}
    /\ msg_shared = NotCalled
    /\ msg_daily = NotCalled
    /\ msg_4h = NotCalled

CallFormatRsiMessageAgain ==
    /\ msg_shared # NotCalled
    /\ msg_shared_again = NotCalled
    /\ msg_daily_again = NotCalled
    /\ \E t \in LaterClocks(now) :
          /\ now_again' = t
          /\ msg_shared_again' = format_rsi_message(extreme_rsi, timeframe_tag, t)
    /\ UNCHANGED <<rsi_vars, detect_vars, format_vars, main_vars, msg_daily_again>>

CallRsi1dFormatRsiMessageAgain ==
    /\ msg_daily # NotCalled
    /\ msg_daily_again = NotCalled
    /\ msg_shared_again = NotCalled
    /\ \E t \in LaterClocks(now) :
          /\ now_again' = t
          /\ msg_daily_again' = rsi1d_format_rsi_message(extreme_rsi, t)
    /\ UNCHANGED <<rsi_vars, detect_vars, format_vars, main_vars, msg_shared_again>>

NextRepeat ==
    \/ CallFormatRsiMessage
    \/ CallRsi1dFormatRsiMessage
    \/ CallFormatRsiMessageAgain
    \/ CallRsi1dFormatRsiMessageAgain

SpecRepeat == InitRepeat /\ [][NextRepeat]_vars

----------------------------------------------------------------------------
(* Specification of a run of an entry point: rsi1d.main or rsi4h.main over  *)
(* the first NSymbols configured symbols.  What the provider and the push   *)
(* endpoints answer is chosen freely; the RSI readings of a fetched series  *)
(* are chosen among the values the two calculate_rsi can return.            *)

RETRY_ATTEMPTS == 3
API_CALL_DELAY == 20
API_CALL_DELAY_4H == 5

\* the head of Config.CRYPTO_IDS and of rsi4h.SYMBOLS (the same four symbols)
SYMBOLS == <<"BTC", "ETH", "BNB", "SOL">>
NOTIFICATION_URLS == <<"push_ft07">>

Bool(b) == [kind |-> "bool", val |-> <<b>>]

RECURSIVE Pow2(_)
Pow2(k) == IF k = 0 THEN 1 ELSE 2 * Pow2(k - 1)

\* urllib.parse.quote_plus, kept symbolic: the encoded form of a text
quote_plus(text) == <<"quote_plus", text>>

\* url_template.format(encoded_title, encoded_content) of the endpoint `api`
notification_url(api, title, content) ==
    [api |-> api, title |-> quote_plus(title), desp |-> quote_plus(content)]

\* (mutation of the test of main: notify whatever was detected)
HasEvents_always(ex) == TRUE

\* `if extreme_rsi:` -- a list or a dict is true when it is not empty
HasEvents(ex) == ex.val # <<>>

\* (rsi_14, rsi_6) of rsi1d.calculate_rsi on one fetched series: a float in
\* [0, 100], or None (series too short for the period, or no price change)
DailyReadings ==
    { <<None, None>>,
      <<None, Float(Num(25))>>,
      <<Float(Num(50)), Float(Num(50))>>,
      <<Float(Num(65)), Float(Num(50))>>,
      <<Float(Num(50)), Float(Num(30))>>,
      <<Float(Num(80)), Float(Num(75))>> }

\* (rsi14_series, rsi6_series) of rsi_utils.calculate_rsi on one fetched
\* series, each reduced to None (no series) or to its last value
FourHourReadings ==
    { <<None, None>>,
      <<None, Float(Num(25))>>,
      <<Float(NaN), Float(NaN)>>,
      <<Float(Num(50)), Float(Num(50))>>,
      <<Float(Num(65)), Float(Num(50))>>,
      <<Float(Num(50)), Float(Num(30))>>,
      <<Float(Num(80)), Float(Num(75))>> }

\* the entries calculate_crypto_rsi and rsi4h.main store for a symbol
daily_failed(symbol) == SymbolData(symbol, Str, Str, TRUE, None)
daily_entry(symbol, r) == SymbolData(symbol, r[1], r[2], FALSE, None)
four_hour_failed(symbol) == SymbolData(symbol, None, None, TRUE, None)
four_hour_entry(symbol, r) ==
    IF r[1] = None \/ r[2] = None THEN four_hour_failed(symbol)
    ELSE SymbolData(symbol, r[1], r[2], FALSE, None)

\* an entry of the log: a request to the provider for a symbol with what came
\* back (op "get"), or a time.sleep of sec seconds (op "backoff" for the wait
\* of a retry, op "delay" for the wait between two symbols)
LogEntry(op, symbol, answer, sec) ==
    [op |-> op, symbol |-> symbol, answer |-> answer, sec |-> sec]

\* the sleep between two symbols, `if idx < total`
delay_after(i, sec) == IF i < NSymbols THEN <<sec>> ELSE <<>>
\* the loop over the symbols goes on, or the results are complete
pc_after(i) == IF i < NSymbols THEN "fetch" ELSE "detect"

MainStart ==
    /\ pc = "fetch"
    /\ idx = 1
    /\ attempt = 0
    /\ slept = <<>>
    /\ endpoint = 0
    /\ requests = <<>>
    /\ success_count = 0
    /\ sent = Pending
    /\ raised = ""
    /\ urls = NOTIFICATION_URLS
    /\ notice = NoNotice
    /\ answers = <<>>
    /\ io_log = <<>>

Init ==
    /\ RsiIdle
    /\ script \in {"rsi1d", "rsi4h"}
    /\ MainStart
    /\ AgainIdle
    /\ results = <<>>
    /\ extreme = Pending
    /\ extreme_daily = Pending
    /\ extreme_rsi = Pending
    /\ timeframe_tag = <<>>
    /\ now \in {Clock(0), Clock(1)}
    /\ msg_shared = NotCalled
    /\ msg_daily = NotCalled
    /\ msg_4h = NotCalled

\* rsi1d: one attempt of get_historical_prices for the current symbol and,
\* when the fetch is over, the rest of the loop body of calculate_crypto_rsi
GetHistoricalPrices ==
    /\ script = "rsi1d"
    /\ pc = "fetch"
    /\ \E answer \in {"prices", "no prices", "RequestException", "Exception"} :
          LET symbol == SYMBOLS[idx]
              retry == answer = "RequestException" /\ attempt < RETRY_ATTEMPTS - 1
              request == <<LogEntry("get", symbol, answer, 0)>>
          IN IF retry
             THEN /\ slept' = Append(slept, Pow2(attempt))
                  /\ io_log' = io_log \o request
                                  \o <<LogEntry("backoff", "", "", Pow2(attempt))>>
                  /\ attempt' = attempt + 1
                  /\ UNCHANGED <<results, idx, pc>>
             ELSE /\ \E r \in DailyReadings :
                        results' = Append(results,
                            IF answer = "prices" THEN daily_entry(symbol, r)
                            ELSE daily_failed(symbol))
                  /\ slept' = slept \o delay_after(idx, API_CALL_DELAY)
                  /\ io_log' = io_log \o request
                                  \o [k \in 1..Len(delay_after(idx, API_CALL_DELAY)) |->
                                         LogEntry("delay", "", "", API_CALL_DELAY)]
                  /\ attempt' = 0
                  /\ pc' = pc_after(idx)
                  /\ idx' = IF idx < NSymbols THEN idx + 1 ELSE idx
    /\ UNCHANGED <<rsi_vars, extreme, extreme_daily, format_vars, script, endpoint,
                   requests, success_count, sent, raised,
                   urls, notice, answers, again_vars>>

\* rsi4h: fetch_ohlcv for the current symbol and the rest of the loop body of
\* main; an exception that is not a RequestException (the KeyError of a
\* payload without ["Data"]["Data"] or without "time") leaves main
FetchOhlcv ==
    /\ script = "rsi4h"
    /\ pc = "fetch"
    /\ \E answer \in {"closes", "RequestException", "KeyError"} :
          LET symbol == SYMBOLS[idx]
              request == <<LogEntry("get", symbol, answer, 0)>>
          IN IF answer = "KeyError"
             THEN /\ pc' = "fault"
                  /\ raised' = "KeyError"
                  /\ io_log' = io_log \o request
                  /\ UNCHANGED <<results, slept, idx>>
             ELSE /\ \E r \in FourHourReadings :
                        results' = Append(results,
                            IF answer = "closes" THEN four_hour_entry(symbol, r)
                            ELSE four_hour_failed(symbol))
                  /\ slept' = slept \o delay_after(idx, API_CALL_DELAY_4H)
                  /\ io_log' = io_log \o request
                                  \o [k \in 1..Len(delay_after(idx, API_CALL_DELAY_4H)) |->
                                         LogEntry("delay", "", "", API_CALL_DELAY_4H)]
                  /\ pc' = pc_after(idx)
                  /\ idx' = IF idx < NSymbols THEN idx + 1 ELSE idx
                  /\ UNCHANGED raised
    /\ UNCHANGED <<rsi_vars, extreme, extreme_daily, format_vars, script, attempt, endpoint,
                   requests, success_count, sent,
                   urls, notice, answers, again_vars>>

\* analyze_extreme_rsi(results) and the test `if extreme_rsi:` of main
AnalyzeExtremeRsi ==
    /\ pc = "detect"
    /\ IF script = "rsi1d"
       THEN /\ extreme_daily' = rsi1d_analyze_extreme_rsi(results)
            /\ pc' = IF HasEvents(extreme_daily') THEN "compose" ELSE "done"
            /\ UNCHANGED extreme
       ELSE /\ extreme' = analyze_extreme_rsi(results)
            /\ pc' = IF HasEvents(extreme') THEN "compose" ELSE "done"
            /\ UNCHANGED extreme_daily
    /\ UNCHANGED <<rsi_vars, results, format_vars, script, idx, attempt, slept, endpoint,
                   requests, success_count, sent, raised,
                   urls, notice, answers, io_log, again_vars>>

\* title, content = format_rsi_message(extreme_rsi): the format_rsi_message of
\* the script itself, applied to what its analyze_extreme_rsi returned
FormatRsiMessage ==
    /\ pc = "compose"
    /\ extreme_rsi' = IF script = "rsi1d" THEN extreme_daily ELSE extreme
    /\ LET msg == IF script = "rsi1d" THEN rsi1d_format_rsi_message(extreme_rsi', now)
                  ELSE rsi4h_format_rsi_message(extreme_rsi', now)
       IN /\ IF script = "rsi1d"
             THEN msg_daily' = msg /\ UNCHANGED msg_4h
             ELSE msg_4h' = msg /\ UNCHANGED msg_daily
          /\ IF msg.kind = "raise"
             THEN /\ pc' = "fault"
                  /\ raised' = msg.exc
                  /\ UNCHANGED <<endpoint, notice>>
             ELSE /\ pc' = "notify"
                  /\ notice' = [title |-> msg.title, content |-> msg.content]
                  /\ endpoint' = 1
                  /\ UNCHANGED raised
    /\ UNCHANGED <<rsi_vars, detect_vars, timeframe_tag, now, msg_shared, script, idx,
                   attempt, slept, requests, success_count, sent,
                   urls, answers, io_log, again_vars>>

\* (mutation of the loop of send_notification: the first endpoint that does
\* not answer 200 ends the loop)
next_endpoint_until_failure(k, answer, n) == IF answer = "200" THEN k + 1 ELSE n + 1

\* the position in the endpoints after the turn for endpoint k of n
next_endpoint(k, answer, n) == k + 1

\* what send_notification returns: rsi1d.py True or False, rsi4h.py nothing
send_result(variant, count) == IF variant = "rsi1d" THEN Bool(count > 0) ELSE None

\* send_notification(title, content): one turn of its loop over the
\* endpoints, or its return when the loop is over
SendNotification ==
    /\ pc = "notify"
    /\ IF endpoint <= Len(urls)
       THEN \E answer \in {"200", "500", "Exception"} :
               /\ requests' = Append(requests,
                                notification_url(urls[endpoint], notice.title, notice.content))
               /\ answers' = Append(answers, answer)
               /\ success_count' = IF answer = "200" THEN success_count + 1 ELSE success_count
               /\ endpoint' = next_endpoint(endpoint, answer, Len(urls))
               /\ UNCHANGED <<pc, sent>>
       ELSE /\ pc' = "done"
            /\ sent' = send_result(script, success_count)
            /\ UNCHANGED <<requests, answers, success_count, endpoint>>
    /\ UNCHANGED <<rsi_vars, detect_vars, format_vars, script, idx, attempt, slept, raised,
                   urls, notice, io_log, again_vars>>

Next == GetHistoricalPrices \/ FetchOhlcv \/ AnalyzeExtremeRsi \/ FormatRsiMessage \/ SendNotification

Spec == Init /\ [][Next]_vars

----------------------------------------------------------------------------
(* Specification of send_notification alone: any configuration of up to    *)
(* MaxEndpoints endpoints, both variants, any answers.                      *)

\* the endpoint of shared.py, the one commented out there, and one more
EndpointPool == <<"server_chan", "push_ft07", "pushdeer">>

\* a dict of endpoints: distinct names, in insertion order
EndpointConfigs ==
    {u \in SeqsUpTo({EndpointPool[k] : k \in 1..Len(EndpointPool)}, MaxEndpoints) :
        \A i, j \in 1..Len(u) : i # j => u[i] # u[j]}

NoticeInputs ==
    { [title |-> "RSI-1{4E2A}{8D85}{4E70},0{4E2A}{8D85}{5356}{4FE1}{53F7}",
       content |-> "BTC (RSI-14): {8D85}{4E70}: 75.50"],
      NoNotice }

InitNotify ==
    /\ RsiIdle
    /\ DetectIdle
    /\ FormatIdle
    /\ AgainIdle
    /\ script \in {"rsi1d", "rsi4h"}
    /\ pc = "notify"
    /\ idx = 0
    /\ attempt = 0
    /\ slept = <<>>
    /\ endpoint = 1
    /\ requests = <<>>
    /\ success_count = 0
    /\ sent = Pending
    /\ raised = ""
    /\ urls \in EndpointConfigs
    /\ notice \in NoticeInputs
    /\ answers = <<>>
    /\ io_log = <<>>

NextNotify == SendNotification

SpecNotify == InitNotify /\ [][NextNotify]_vars

----------------------------------------------------------------------------
(* Properties of the RSI engine. *)

Last(s) == s[Len(s)]
Called == rsi_shared # Pending /\ rsi_daily # Pending
TooShort == prices = None \/ Len(prices.val) <= period
Delta(i) == prices.val[i] - prices.val[i - 1]
StrictlyIncreasing == \A i \in 2..Len(prices.val) : Delta(i) > 0
StrictlyDecreasing == \A i \in 2..Len(prices.val) : Delta(i) < 0
PerfectlyFlat == \A i \in 2..Len(prices.val) : Delta(i) = 0
InUnit(f) == FGe(f, Num(0)) /\ FLe(f, Num(100))
\* no price change that still weighs on the smoothed averages at position i
NoMoveUpTo(i) ==
    IF period = 1 THEN i = 1 \/ Delta(i) = 0 ELSE \A j \in 2..i : Delta(j) = 0

\* C1: both variants return None when the series is absent or shorter than
\* period + 1 points; from period + 1 points on the shared variant returns the
\* RSI series (one value per price), and the daily variant returns a float
\* unless the last ratio is the undefined 0/0 of prices that did not move.
C1_LengthGuard ==
    /\ rsi_shared # Pending =>
          /\ TooShort <=> rsi_shared = None
          /\ ~TooShort => rsi_shared.kind = "Series"
                          /\ Len(rsi_shared.val) = Len(prices.val)
    /\ rsi_daily # Pending =>
          /\ TooShort => rsi_daily = None
          /\ ~TooShort => /\ rsi_daily.kind \in {"float", "None"}
                          /\ rsi_daily = None <=> NoMoveUpTo(Len(prices.val))

C1_Witness ==
    /\ Called /\ prices # None
    /\ Len(prices.val) = period + 1
    /\ rsi_shared.kind = "Series" /\ rsi_daily.kind = "float"

\* C2: a strictly increasing series of at least period + 1 points has 100 as
\* its last RSI value, a strictly decreasing one has 0, in both variants.
C2_Saturation ==
    ~TooShort /\ Len(prices.val) >= 2 =>
        /\ rsi_shared # Pending =>
              /\ StrictlyIncreasing => rsi_shared.kind = "Series"
                                       /\ Last(rsi_shared.val) = Num(100)
              /\ StrictlyDecreasing => rsi_shared.kind = "Series"
                                       /\ FEq(Last(rsi_shared.val), Num(0))
        /\ rsi_daily # Pending =>
              /\ StrictlyIncreasing => rsi_daily = Float(Num(100))
              /\ StrictlyDecreasing => rsi_daily.kind = "float"
                                       /\ FEq(rsi_daily.val[1], Num(0))

C2_Witness ==
    /\ Called /\ ~TooShort /\ Len(prices.val) >= 3 /\ StrictlyIncreasing
    /\ Last(rsi_shared.val) = Num(100) /\ rsi_daily = Float(Num(100))

\* C3 as stated: for a series of at least period + 1 points that is not
\* perfectly flat, every RSI value produced (every position that has a price
\* change behind it) lies in [0, 100].  Stated for period >= 2, where a price
\* change, once made, weighs on every later value.
C3_AsStated ==
    ~TooShort /\ ~PerfectlyFlat /\ period >= 2 =>
        /\ rsi_shared # Pending =>
              \A i \in 2..Len(rsi_shared.val) : InUnit(rsi_shared.val[i])
        /\ rsi_daily \notin {Pending, None} => InUnit(rsi_daily.val[1])

\* C3 as amended: every RSI value is NaN or lies in [0, 100]; a value is NaN
\* exactly where no price change weighs on the averages (with period >= 2:
\* before the first price change; with period 1: where the price did not
\* change), so with period >= 2 the last value of a series that is not
\* perfectly flat lies in [0, 100].
C3_Range ==
    ~TooShort =>
        /\ rsi_shared # Pending =>
              /\ \A i \in 1..Len(rsi_shared.val) :
                    /\ IsNaN(rsi_shared.val[i]) <=> NoMoveUpTo(i)
                    /\ ~IsNaN(rsi_shared.val[i]) => InUnit(rsi_shared.val[i])
              /\ period >= 2 /\ ~PerfectlyFlat => InUnit(Last(rsi_shared.val))
        /\ rsi_daily # Pending =>
              /\ rsi_daily # None => InUnit(rsi_daily.val[1])
              /\ period >= 2 /\ ~PerfectlyFlat => rsi_daily # None

C3_Witness ==
    /\ Called /\ ~TooShort /\ ~PerfectlyFlat /\ period >= 2
    /\ Len(prices.val) >= 3 /\ Delta(2) = 0
    /\ IsNaN(rsi_shared.val[2])
    /\ InUnit(Last(rsi_shared.val)) /\ FLt(Last(rsi_shared.val), Num(100))
    /\ FGt(rsi_daily.val[1], Num(0))

\* Wilder's recursion as the claim states it: seeded by the first sample,
\* then alpha * x_t + (1 - alpha) * avg_{t-1}
RECURSIVE Wilder(_, _, _)
Wilder(x, t, alpha) ==
    IF t = 1 THEN x[1]
    ELSE FAdd(FMul(alpha, x[t]), FMul(FSub(Num(1), alpha), Wilder(x, t - 1, alpha)))
Gains == [t \in 1..(Len(prices.val) - 1) |->
    IF Delta(t + 1) > 0 THEN Num(Delta(t + 1)) ELSE Num(0)]
Losses == [t \in 1..(Len(prices.val) - 1) |->
    IF Delta(t + 1) < 0 THEN Num(-Delta(t + 1)) ELSE Num(0)]

\* C4: in both variants the smoothed gain and loss after the t-th price change
\* are Wilder's recursion seeded by the first change, and the two variants
\* return the same last RSI value.
C4_WilderSeed ==
    Called /\ ~TooShort =>
        /\ \A t \in 1..(Len(prices.val) - 1) :
              /\ FEq(avg_gain_shared(prices.val, period)[t + 1], Wilder(Gains, t, Frac(1, period)))
              /\ FEq(avg_loss_shared(prices.val, period)[t + 1], Wilder(Losses, t, Frac(1, period)))
              /\ FEq(avg_gain_daily(prices.val, period)[t + 1], Wilder(Gains, t, Frac(1, period)))
              /\ FEq(avg_loss_daily(prices.val, period)[t + 1], Wilder(Losses, t, Frac(1, period)))
        /\ rsi_daily # None => FEq(rsi_daily.val[1], Last(rsi_shared.val))


----------------------------------------------------------------------------
(* Properties of the extreme detector. *)

Detected == extreme # Pending /\ extreme_daily # Pending
Entries == {results[k] : k \in 1..Len(results)}
Periods == {14, 6}
Label(p) == IF p = 14 THEN "RSI-14" ELSE "RSI-6"
Field(data, p) == IF p = 14 THEN data.rsi_14 ELSE data.rsi_6
Overbought(p) == IF p = 14 THEN 65 ELSE 70
Oversold(p) == IF p = 14 THEN 35 ELSE 30
EventsFor(data, p) ==
    {k \in 1..Len(extreme.val) :
        extreme.val[k].symbol = data.symbol /\ extreme.val[k].indicator = Label(p)}
ItemsFor(data, p) ==
    {k \in 1..Len(extreme_daily.val) :
        extreme_daily.val[k].key = <<data.symbol, " (", Label(p), ")">>}
Direction(v, p) ==
    IF FGe(v, Num(Overbought(p))) THEN OVERBOUGHT ELSE OVERSOLD
IsExtreme(v, p) == FGe(v, Num(Overbought(p))) \/ FLe(v, Num(Oversold(p)))

\* C5, the classification alone: for a non-failed symbol and a numeric value v
\* of period p, both variants emit an event for (symbol, p) exactly when
\* v >= overbought[p] or v <= oversold[p], with the matching direction.
C5_Thresholds ==
    \A data \in Entries : \A p \in Periods :
        ~data.error /\ Field(data, p).kind = "float" =>
            LET v == Field(data, p).val[1] IN
            /\ extreme # Pending =>
                  /\ EventsFor(data, p) # {} <=> IsExtreme(v, p)
                  /\ \A k \in EventsFor(data, p) : extreme.val[k].signal = Direction(v, p)
            /\ extreme_daily # Pending =>
                  /\ ItemsFor(data, p) # {} <=> IsExtreme(v, p)
                  /\ \A k \in ItemsFor(data, p) :
                        extreme_daily.val[k].status = <<Direction(v, p), ": ", Fmt2(v)>>

\* C5: C5_Thresholds, and every event carries the value v and the reference
\* price of its symbol, in both variants.
C5_EventCarriesValueAndPrice ==
    /\ C5_Thresholds
    /\ \A data \in Entries : \A p \in Periods :
          /\ extreme # Pending =>
                \A k \in EventsFor(data, p) :
                    /\ extreme.val[k].rsi_value = Field(data, p)
                    /\ extreme.val[k].price = data.price
          /\ extreme_daily # Pending =>
                \A k \in ItemsFor(data, p) :
                    /\ "rsi_value" \in DOMAIN extreme_daily.val[k]
                    /\ "price" \in DOMAIN extreme_daily.val[k]

\* C6: a symbol flagged error contributes no event, whatever its rsi fields
\* hold; a period whose field is None or a string contributes no event; the
\* other period of the same non-failed symbol is still classified.
C6_NoEventFromFailure ==
    \A data \in Entries : \A p \in Periods :
        LET other == IF p = 14 THEN 6 ELSE 14 IN
        /\ extreme # Pending =>
              /\ data.error => EventsFor(data, p) = {}
              /\ Field(data, p).kind # "float" => EventsFor(data, p) = {}
              /\ ~data.error /\ Field(data, p).kind # "float"
                    /\ Field(data, other).kind = "float"
                    /\ IsExtreme(Field(data, other).val[1], other)
                 => EventsFor(data, other) # {}
        /\ extreme_daily # Pending =>
              /\ data.error => ItemsFor(data, p) = {}
              /\ Field(data, p).kind # "float" => ItemsFor(data, p) = {}
              /\ ~data.error /\ Field(data, p).kind # "float"
                    /\ Field(data, other).kind = "float"
                    /\ IsExtreme(Field(data, other).val[1], other)
                 => ItemsFor(data, other) # {}

C6_Witness ==
    /\ Detected /\ Len(results) = 2
    /\ results[1].error /\ results[1].rsi_14 = Float(Num(65))
    /\ ~results[2].error /\ results[2].rsi_14 = Str /\ results[2].rsi_6 = Float(Num(30))
    /\ Len(extreme.val) = 1 /\ extreme.val[1].symbol = results[2].symbol
    /\ extreme.val[1].indicator = "RSI-6"
    /\ Len(extreme_daily.val) = 1

SymbolIndex(symbol) == CHOOSE k \in 1..Len(results) : results[k].symbol = symbol

\* C7: in the list rsi_utils.analyze_extreme_rsi returns, every event belongs
\* to a symbol of the input, the events follow the iteration order of the
\* input symbols, and two events of one symbol are its RSI-14 event followed
\* by its RSI-6 event (so a symbol has at most one event per period label and
\* at most two events).
C7_EventOrder ==
    extreme # Pending =>
        LET ev == extreme.val IN
        /\ \A k \in 1..Len(ev) : \E data \in Entries : data.symbol = ev[k].symbol
        /\ \A i, j \in 1..Len(ev) : i < j =>
              /\ SymbolIndex(ev[i].symbol) <= SymbolIndex(ev[j].symbol)
              /\ ev[i].symbol = ev[j].symbol =>
                    ev[i].indicator = "RSI-14" /\ ev[j].indicator = "RSI-6"
        /\ \A data \in Entries :
              Cardinality({k \in 1..Len(ev) : ev[k].symbol = data.symbol}) <= 2

C7_Witness ==
    /\ extreme # Pending /\ Len(results) = 2 /\ Len(extreme.val) = 4
    /\ extreme.val[1].symbol = results[1].symbol /\ extreme.val[1].indicator = "RSI-14"
    /\ extreme.val[2].symbol = results[1].symbol /\ extreme.val[2].indicator = "RSI-6"
    /\ extreme.val[3].symbol = results[2].symbol /\ extreme.val[4].symbol = results[2].symbol

----------------------------------------------------------------------------
(* Properties of the message composer. *)

Given(tag) == tag # <<>> /\ tag[1] # ""
Range(f) == {f[k] : k \in 1..Len(f)}
IsOverbought(e) == e.signal = "{8D85}{4E70}"
IsOversold(e) == e.signal = "{8D85}{5356}"
\* the positions of a line, the first position of a line that occurs
PositionsOf(lines, line) == {k \in 1..Len(lines) : lines[k] = line}
FirstOf(lines, line) == CHOOSE k \in PositionsOf(lines, line) : \A j \in PositionsOf(lines, line) : k <= j
\* the table rows of a body, in the order they appear
IsRow(line) == \E k \in 1..Len(EventPool) : line = table_row(EventPool[k])
RowPositions(lines) == {k \in 1..Len(lines) : IsRow(lines[k])}
ExpectedTitle(n, m) ==
    "RSI-" \o ToString(n) \o "{4E2A}{8D85}{4E70}," \o ToString(m) \o "{4E2A}{8D85}{5356}{4FE1}{53F7}"

\* C9: for a non-empty list of events rsi_utils.format_rsi_message returns a
\* title that counts the overbought and the oversold events (after
\* "<label> | " exactly when a non-empty label is given), and a body whose
\* rows are the rows of the overbought events in input order followed by the
\* rows of the oversold events in input order; the overbought table (its
\* header, then its rows) comes before the oversold table, and a table is
\* there exactly when it has a row.  The two counts add up to the number of
\* events.
C9_PartitionTitleTables ==
    msg_shared # NotCalled /\ extreme_rsi.kind = "list" /\ extreme_rsi.val # <<>> =>
        LET ob == SelectSeq(extreme_rsi.val, IsOverbought)
            os == SelectSeq(extreme_rsi.val, IsOversold)
            lines == msg_shared.lines
            rows == SelectSeq(lines, IsRow)
        IN /\ msg_shared.kind = "return"
           /\ Len(ob) + Len(os) = Len(extreme_rsi.val)
           /\ msg_shared.title =
                 (IF Given(timeframe_tag) THEN timeframe_tag[1] \o " | " ELSE "")
                 \o ExpectedTitle(Len(ob), Len(os))
           /\ rows = [k \in 1..(Len(ob) + Len(os)) |->
                        IF k <= Len(ob) THEN table_row(ob[k]) ELSE table_row(os[k - Len(ob)])]
           /\ (OVERBOUGHT_HEADER \in Range(lines)) <=> ob # <<>>
           /\ (OVERSOLD_HEADER \in Range(lines)) <=> os # <<>>
           /\ Cardinality(PositionsOf(lines, OVERBOUGHT_HEADER)) <= 1
           /\ Cardinality(PositionsOf(lines, OVERSOLD_HEADER)) <= 1
           /\ ob # <<>> =>
                 Cardinality({k \in RowPositions(lines) :
                     /\ k > FirstOf(lines, OVERBOUGHT_HEADER)
                     /\ os # <<>> => k < FirstOf(lines, OVERSOLD_HEADER)}) = Len(ob)
           /\ os # <<>> =>
                 Cardinality({k \in RowPositions(lines) :
                     k > FirstOf(lines, OVERSOLD_HEADER)}) = Len(os)
           /\ ob # <<>> /\ os # <<>> =>
                 FirstOf(lines, OVERBOUGHT_HEADER) < FirstOf(lines, OVERSOLD_HEADER)
           /\ msg_shared.content = join(lines)

C9_Witness ==
    /\ extreme_rsi = List(<<EventPool[2], EventPool[1], EventPool[3]>>)
    /\ timeframe_tag = <<"rsi4h">>
    /\ msg_shared.kind = "return"
    /\ msg_shared.title = "rsi4h | RSI-2{4E2A}{8D85}{4E70},1{4E2A}{8D85}{5356}{4FE1}{53F7}"
    /\ SelectSeq(msg_shared.lines, IsRow) =
          << "| **BTC** | {60}RSI-14{60} | **72.50** | $63,123.45 |",
             "| **SOL** | {60}RSI-14{60} | **68.20** | -- |",
             "| **ETH** | {60}RSI-6{60} | **28.30** | $3,123.11 |" >>

\* C10: called with a list of event records, rsi1d.format_rsi_message returns
\* (it does not raise) a title and a body with one row per event showing the
\* symbol, the period label, the RSI value to 2 decimals and the price as
\* $X,XXX.XX or "--"; for the single event BTC / RSI-14 / overbought / 72.50 /
\* 63123.45 the title counts 1 overbought and 0 oversold and the body has the
\* header of the price column and "$63,123.45".
C10_DailyFormatOfRecords ==
    msg_daily # NotCalled /\ extreme_rsi.kind = "list" /\ extreme_rsi.val # <<>> =>
        /\ msg_daily.kind = "return"
        /\ \A k \in 1..Len(extreme_rsi.val) :
              LET e == extreme_rsi.val[k] IN
              ("| **" \o e.symbol \o "** | {60}" \o e.indicator \o "{60} | **"
                 \o Fmt2(e.rsi_value.val[1]) \o "** | "
                 \o (IF e.price = None THEN "--" ELSE "$" \o FormatFixed2(e.price.val[1], TRUE))
                 \o " |") \in Range(msg_daily.lines)
        /\ extreme_rsi.val = <<EventPool[1]>> =>
              /\ msg_daily.title = ExpectedTitle(1, 0)
              /\ PRICE_TABLE_HEAD \in Range(msg_daily.lines)
              /\ "| **BTC** | {60}RSI-14{60} | **72.50** | $63,123.45 |" \in Range(msg_daily.lines)

----------------------------------------------------------------------------
(* Properties of a run. *)

\* what analyze_extreme_rsi returned to main in this run
Returned == IF script = "rsi1d" THEN extreme_daily ELSE extreme
EmptyPair(msg) == msg.kind = "return" /\ msg.title = "" /\ msg.content = ""

\* C8: once the detector of a run has returned no event, format_rsi_message
\* of that value is the pair ("", "") -- for rsi_utils with any label, and
\* for the composer of the script that runs -- and the run ends without
\* composing a message and without any request to a push endpoint.
C8_NoNotifyWhenEmpty ==
    Returned # Pending /\ Returned.val = <<>> =>
        /\ \A tag \in TagInputs : EmptyPair(format_rsi_message(Returned, tag, now))
        /\ EmptyPair(IF script = "rsi1d" THEN rsi1d_format_rsi_message(Returned, now)
                     ELSE rsi4h_format_rsi_message(Returned, now))
        /\ pc = "done"
        /\ msg_daily = NotCalled /\ msg_4h = NotCalled
        /\ requests = <<>>
        /\ sent = Pending

C8_Witness ==
    /\ script = "rsi1d"
    /\ pc = "done"
    /\ results = << SymbolData("BTC", Float(Num(50)), Float(Num(50)), FALSE, None),
                    SymbolData("ETH", Str, Str, TRUE, None) >>
    /\ extreme_daily = Dict(<<>>)
    /\ requests = <<>>

----------------------------------------------------------------------------
(* Properties of repeated calls of the composer. *)

\* the positions where two bodies of the same length differ
DifferingLines(m1, m2) == {k \in 1..Len(m1.lines) : m1.lines[k] # m2.lines[k]}
\* the positions of the line that shows the clock reading t
TimestampLines(m, t) == {k \in 1..Len(m.lines) : m.lines[k] = TIME_LABEL \o strftime(t)}
\* two calls with the same events and label, at the clock readings t1 and t2
SameButTimestamp(m1, t1, m2, t2) ==
    /\ m1.kind = m2.kind
    /\ m1.exc = m2.exc
    /\ m1.title = m2.title
    /\ Len(m1.lines) = Len(m2.lines)
    /\ DifferingLines(m1, m2) \subseteq (TimestampLines(m1, t1) \cap TimestampLines(m2, t2))
    /\ Cardinality(DifferingLines(m1, m2)) <= 1
    /\ t1 = t2 => m1.lines = m2.lines /\ m1.content = m2.content

C11_WitnessSameClock ==
    /\ extreme_rsi = Dict(ItemsOf(<<EventPool[1], EventPool[2]>>))
    /\ now = Clock(1) /\ now_again = Clock(1)
    /\ msg_daily.kind = "return" /\ msg_daily_again = msg_daily

----------------------------------------------------------------------------
(* Properties of send_notification. *)

Returned200 == \E k \in 1..Len(answers) : answers[k] = "200"

\* C12, the attempts alone: the requests made so far are one per endpoint,
\* for the first endpoints of the configuration in its order, each with the
\* title and the content of the call, whatever the earlier endpoints
\* answered; when the call has returned every endpoint was requested once.
C12_Attempts ==
    /\ Len(requests) = Len(answers)
    /\ Len(requests) <= Len(urls)
    /\ \A k \in 1..Len(requests) :
          requests[k] = [api |-> urls[k], title |-> quote_plus(notice.title),
                         desp |-> quote_plus(notice.content)]
    /\ pc = "notify" => endpoint = Len(requests) + 1
    /\ pc = "done" => Len(requests) = Len(urls)

\* C12: C12_Attempts, and in both variants the call returns success exactly
\* when at least one endpoint answered 200 (failure when all failed or none
\* is configured).
C12_AttemptsAndResult ==
    /\ C12_Attempts
    /\ pc = "done" => sent = [kind |-> "bool", val |-> <<Returned200>>]

\* the result of the daily variant alone
C12_DailyResult ==
    script = "rsi1d" /\ pc = "done" => sent = [kind |-> "bool", val |-> <<Returned200>>]

C12_FailureThenSuccess ==
    /\ pc = "done" /\ script = "rsi1d"
    /\ urls = <<"server_chan", "push_ft07">>
    /\ answers = <<"Exception", "200">>
    /\ sent = [kind |-> "bool", val |-> <<TRUE>>]

----------------------------------------------------------------------------
(* Properties of the loop over the symbols. *)

ResultsInOrder == \A k \in 1..Len(results) : results[k].symbol = SYMBOLS[k]
Fetching == pc = "fetch"

\* C13: whatever the provider answers for a symbol, the run goes on: while
\* the loop runs there is one result for each symbol before the current one,
\* in configuration order; no exception leaves the loop; and once the loop is
\* over there is one result for each of the NSymbols symbols.
C13_FetchFailureIsolated ==
    /\ ResultsInOrder
    /\ Fetching => Len(results) = idx - 1 /\ raised = ""
    /\ ~Fetching => Len(results) = NSymbols

\* the same for the daily script alone
C13_DailyFetchFailureIsolated ==
    script = "rsi1d" => C13_FetchFailureIsolated

C13_DailyWitness ==
    /\ script = "rsi1d" /\ pc = "detect"
    /\ results[1].error /\ ~results[2].error
    /\ slept = <<1, 2, 20>>

----------------------------------------------------------------------------
(* Properties of the ingestion. *)

Malformed == \E k \in 1..(Len(payload) - 1) : payload[k + 1].time <= payload[k].time
HasRsiValue ==
    \/ rsi_daily.kind = "float"
    \/ rsi_shared.kind = "Series"

\* C14, rejection: a payload whose timestamps are not strictly increasing
\* never becomes a price series and no RSI is computed from it; its
\* processing ends with an error.
C14_MalformedRejected ==
    Malformed =>
        /\ prices.kind # "Series"
        /\ ~HasRsiValue
        /\ pc # "fetch" => raised # ""

\* C14, no repair: the series that is ingested holds the prices of the rows
\* in the order of the payload, none dropped.
C14_NeverReordered ==
    prices.kind = "Series" =>
        /\ Len(prices.val) = Len(payload)
        /\ \A k \in 1..Len(payload) : prices.val[k] = payload[k].price

----------------------------------------------------------------------------
(* Properties of the fetch of one symbol. *)

GetsOf(symbol) ==
    {k \in 1..Len(io_log) : io_log[k].op = "get" /\ io_log[k].symbol = symbol}
AttemptNo(k) == Cardinality({j \in GetsOf(io_log[k].symbol) : j <= k})
NetworkFailure(k) == io_log[k].op = "get" /\ io_log[k].answer = "RequestException"
Success(k) == io_log[k].op = "get" /\ io_log[k].answer \in {"prices", "closes"}
AllAttemptsFailed(symbol) ==
    /\ Cardinality(GetsOf(symbol)) = RETRY_ATTEMPTS
    /\ \A k \in GetsOf(symbol) : NetworkFailure(k)
OnlyNetworkFailures(symbol) ==
    /\ GetsOf(symbol) # {}
    /\ \A k \in GetsOf(symbol) : NetworkFailure(k)

\* C15: the fetch of one symbol makes at most RETRY_ATTEMPTS requests; a
\* successful request is the last one for its symbol; the k-th request that
\* fails on the network, k < RETRY_ATTEMPTS, is followed by a wait of 2^(k-1)
\* seconds and then by request k+1 for the same symbol; there is no backoff
\* wait after the last attempt or after anything but a network failure; and
\* a fetch that met only network failures gives up, with the fetch-failed
\* outcome, after RETRY_ATTEMPTS of them and not before.
C15_RetryWithBackoff ==
    /\ attempt < RETRY_ATTEMPTS
    /\ \A symbol \in Range(SYMBOLS) : Cardinality(GetsOf(symbol)) <= RETRY_ATTEMPTS
    /\ \A k \in 1..Len(io_log) :
          /\ Success(k) => \A j \in GetsOf(io_log[k].symbol) : j <= k
          /\ NetworkFailure(k) /\ AttemptNo(k) < RETRY_ATTEMPTS =>
                /\ k + 1 <= Len(io_log)
                /\ io_log[k + 1].op = "backoff"
                /\ io_log[k + 1].sec = Pow2(AttemptNo(k) - 1)
                /\ k + 2 <= Len(io_log) =>
                      /\ io_log[k + 2].op = "get"
                      /\ io_log[k + 2].symbol = io_log[k].symbol
          /\ NetworkFailure(k) /\ AttemptNo(k) = RETRY_ATTEMPTS =>
                (k + 1 <= Len(io_log) => io_log[k + 1].op # "backoff")
          /\ io_log[k].op = "backoff" => k > 1 /\ NetworkFailure(k - 1)
    /\ \A i \in 1..Len(results) :
          OnlyNetworkFailures(results[i].symbol) =>
             /\ results[i].error
             /\ AllAttemptsFailed(results[i].symbol)

\* the same for the daily script alone
C15_DailyRetryWithBackoff ==
    script = "rsi1d" => C15_RetryWithBackoff

\* the daily fetch of the first symbol gives up after three network failures
C15_DailyWitness ==
    /\ script = "rsi1d"
    /\ Len(results) >= 1
    /\ results[1].error
    /\ AllAttemptsFailed(SYMBOLS[1])
    /\ SubSeq(io_log, 1, 5) =
          << LogEntry("get", SYMBOLS[1], "RequestException", 0),
             LogEntry("backoff", "", "", 1),
             LogEntry("get", SYMBOLS[1], "RequestException", 0),
             LogEntry("backoff", "", "", 2),
             LogEntry("get", SYMBOLS[1], "RequestException", 0) >>

\* the fetch loop of a run ends: every symbol's fetch terminates
FairSpec == Spec /\ WF_vars(Next)
C15_FetchTerminates == <>(pc # "fetch")

----------------------------------------------------------------------------
(* Properties of a run whose detector returned events. *)

EventsReturned == Returned # Pending /\ Returned.val # <<>>
Composed == IF script = "rsi1d" THEN msg_daily ELSE msg_4h

\* C16: once the detector of a run has returned at least one event, the run
\* never faults; when the composer has run it was applied to exactly the value
\* the detector returned and gave a non-empty title and a non-empty body; and
\* send_notification is called once, with that title and body: every request
\* of the run carries them, and there is one request per endpoint.
C16_EventsReachNotifier ==
    EventsReturned =>
        /\ pc \in {"compose", "notify", "done"}
        /\ raised = ""
        /\ pc \in {"notify", "done"} =>
              /\ extreme_rsi = Returned
              /\ Composed.kind = "return"
              /\ Composed.title # "" /\ Composed.content # ""
              /\ notice = [title |-> Composed.title, content |-> Composed.content]
              /\ \A k \in 1..Len(requests) :
                    requests[k] = notification_url(urls[k], notice.title, notice.content)
        /\ pc = "compose" => requests = <<>>
        /\ pc = "done" => Len(requests) = Len(urls)

\* the same for the daily script alone
C16_DailyEventsReachNotifier ==
    script = "rsi1d" => C16_EventsReachNotifier

\* a daily run with an overbought BTC that went through the three steps
C16_DailyWitness ==
    /\ script = "rsi1d"
    /\ pc = "done"
    /\ EventsReturned
    /\ Len(requests) = 1
    /\ sent = Bool(TRUE)

----------------------------------------------------------------------------
(* Properties of the RSI of prices that never move. *)

\* the results entry each script stores for a symbol whose two RSI are the
\* value computed here (rsi4h.py:149-151 the last of the series, rsi1d.py:193)
FourHourEntryOf(series) ==
    SymbolData("BTC", Float(Last(series.val)), Float(Last(series.val)), FALSE, None)
DailyEntryOf(value) == SymbolData("BTC", value, value, FALSE, None)
Thresholds ==
    {RSI_OVERBOUGHT_14, RSI_OVERSOLD_14, RSI_OVERBOUGHT_6, RSI_OVERSOLD_6}

\* C17: for a perfectly flat series of at least period + 1 points both
\* variants return (no exception): the daily one returns None; the shared one
\* returns a series whose last value is NaN, which is neither >= nor <= any
\* threshold; and the results entry made of that value yields no event in the
\* detector of either script, for RSI-14 as for RSI-6.
C17_FlatIsNoValue ==
    ~TooShort /\ PerfectlyFlat =>
        /\ rsi_daily # Pending =>
              /\ rsi_daily = None
              /\ rsi1d_items_of_symbol(DailyEntryOf(rsi_daily)) = <<>>
              /\ rsi1d_analyze_extreme_rsi(<<DailyEntryOf(rsi_daily)>>) = Dict(<<>>)
        /\ rsi_shared # Pending =>
              /\ rsi_shared.kind = "Series"
              /\ IsNaN(Last(rsi_shared.val))
              /\ \A t \in Thresholds :
                    /\ ~FGe(Last(rsi_shared.val), Num(t))
                    /\ ~FLe(Last(rsi_shared.val), Num(t))
              /\ events_of_symbol(FourHourEntryOf(rsi_shared)) = <<>>
              /\ analyze_extreme_rsi(<<FourHourEntryOf(rsi_shared)>>) = List(<<>>)

C17_Witness ==
    /\ Called /\ ~TooShort /\ PerfectlyFlat
    /\ Len(prices.val) = MaxLen /\ period = 2
    /\ rsi_daily = None
    /\ IsNaN(Last(rsi_shared.val))
    /\ analyze_extreme_rsi(<<FourHourEntryOf(rsi_shared)>>) = List(<<>>)

====
